---------------------------- MODULE Spec2Model ----------------------------
(***************************************************************************)
(* Model of attendance_export.py: one run of main(), from configuration    *)
(* validation to the process exit status, with every external call         *)
(* (identity service, launch resolution, browser, form) as a step whose    *)
(* outcome the environment chooses.                                        *)
(*                                                                         *)
(* Exceptions follow Python: sys.exit raises SystemExit, which the         *)
(* handlers of main (except KeyboardInterrupt / except Exception) do not   *)
(* catch; the finally block runs on every way out of the try body.  An     *)
(* interrupt is the KeyboardInterrupt that the handler of main line 499    *)
(* is written for: it can arrive during any step of the try body.          *)
(***************************************************************************)
EXTENDS Integers, Sequences, FiniteSets, TLC

\* ------------------------------------------------------------------------
\* Bounds of the model
\* ------------------------------------------------------------------------

\* Run dates are drawn from two windows of MaxDayOffset + 1 consecutive days.
MaxDayOffset == 45

\* ------------------------------------------------------------------------
\* Calendar arithmetic of datetime (proleptic Gregorian ordinals, day 1 is
\* 0001-01-01, a Monday) and strftime("%m/%d/%Y")
\* ------------------------------------------------------------------------

None == "None"

\* A date string that has not been computed or typed yet
NoDate == << >>

IsLeap(y) == (y % 4 = 0) /\ ((y % 100 # 0) \/ (y % 400 = 0))

DaysInMonth(y, m) ==
    IF m = 2 THEN (IF IsLeap(y) THEN 29 ELSE 28)
    ELSE IF m \in {4, 6, 9, 11} THEN 30 ELSE 31

DaysBeforeYear(y) ==
    (y - 1) * 365 + ((y - 1) \div 4) - ((y - 1) \div 100) + ((y - 1) \div 400)

RECURSIVE DaysBeforeMonth(_, _)
DaysBeforeMonth(y, m) ==
    IF m = 1 THEN 0 ELSE DaysBeforeMonth(y, m - 1) + DaysInMonth(y, m - 1)

\* date(y, m, d).toordinal()
Ymd2ord(y, m, d) == DaysBeforeYear(y) + DaysBeforeMonth(y, m) + d

\* date.fromordinal(n) as <<year, month, day>>
Ord2ymd(n) ==
    LET y == CHOOSE yy \in (n \div 366)..((n \div 365) + 1) :
                 DaysBeforeYear(yy) < n /\ n <= DaysBeforeYear(yy + 1)
        r == n - DaysBeforeYear(y)
        m == CHOOSE mm \in 1..12 :
                 DaysBeforeMonth(y, mm) < r
                 /\ r <= DaysBeforeMonth(y, mm) + DaysInMonth(y, mm)
    IN  <<y, m, r - DaysBeforeMonth(y, m)>>

\* datetime.weekday(): Monday is 0
Weekday(n) == (n + 6) % 7

DigitChar(d) == <<"0", "1", "2", "3", "4", "5", "6", "7", "8", "9">>[d + 1]

\* strftime("%m/%d/%Y") of the date with ordinal n, as the sequence of its
\* ten characters
Strftime(n) ==
    LET ymd == Ord2ymd(n)
        y == ymd[1]
        m == ymd[2]
        d == ymd[3]
    IN  << DigitChar(m \div 10), DigitChar(m % 10), "/",
           DigitChar(d \div 10), DigitChar(d % 10), "/",
           DigitChar(y \div 1000), DigitChar((y \div 100) % 10),
           DigitChar((y \div 10) % 10), DigitChar(y % 10) >>

\* today - timedelta(days = k)
MinusDays(n, k) == n - k

\* The run dates the model draws datetime.now() from: a window over the
\* 2025/2026 year boundary and a window over the leap day of 2024.
RunDates ==
    { Ymd2ord(2025, 12, 1) + k : k \in 0..MaxDayOffset }
    \cup { Ymd2ord(2024, 2, 24) + k : k \in 0..MaxDayOffset }

\* calculate_date_range with the Monday test off by one weekday
calculate_date_range_tuesday(today) ==
    LET start == IF Weekday(today) = 1
                 THEN Strftime(MinusDays(today, 7))
                 ELSE Strftime(MinusDays(today, 1))
        end == Strftime(MinusDays(today, 1))
    IN  <<start, end>>

\* calculate_date_range with the end date taken from today itself
calculate_date_range_end_today(today) ==
    LET start == IF Weekday(today) = 0
                 THEN Strftime(MinusDays(today, 7))
                 ELSE Strftime(MinusDays(today, 1))
        end == Strftime(today)
    IN  <<start, end>>

\* calculate_date_range going back a day further on Mondays
calculate_date_range_eight_days(today) ==
    LET start == IF Weekday(today) = 0
                 THEN Strftime(MinusDays(today, 8))
                 ELSE Strftime(MinusDays(today, 1))
        end == Strftime(MinusDays(today, 1))
    IN  <<start, end>>

\* calculate_date_range() when datetime.now() falls on day today:
\* <<start_date, end_date>> as MM/DD/YYYY strings
calculate_date_range(today) ==
    LET start == IF Weekday(today) = 0
                 THEN Strftime(MinusDays(today, 7))
                 ELSE Strftime(MinusDays(today, 1))
        end == Strftime(MinusDays(today, 1))
    IN  <<start, end>>

\* A time of day on a calendar day, to the minute: <<ordinal, hour, minute>>.
\* now + timedelta(hours = h)
PlusHours(now, h) ==
    << now[1] + ((now[2] + h) \div 24), (now[2] + h) % 24, now[3] >>

\* datetime.isoformat() of a naive datetime, to the minute: the sixteen
\* characters YYYY-MM-DDTHH:MM
Isoformat(t) ==
    LET ymd == Ord2ymd(t[1])
        y == ymd[1]
        m == ymd[2]
        d == ymd[3]
    IN  << DigitChar(y \div 1000), DigitChar((y \div 100) % 10),
           DigitChar((y \div 10) % 10), DigitChar(y % 10), "-",
           DigitChar(m \div 10), DigitChar(m % 10), "-",
           DigitChar(d \div 10), DigitChar(d % 10), "T",
           DigitChar(t[2] \div 10), DigitChar(t[2] % 10), ":",
           DigitChar(t[3] \div 10), DigitChar(t[3] % 10) >>

\* The times the model draws the datetime.now() of create_temporary_token
\* from: around midnight and midday, at a year end and around a leap day
IssueTimes ==
    { <<d, h, m>> : d \in { Ymd2ord(2025, 12, 31), Ymd2ord(2024, 2, 28),
                            Ymd2ord(2024, 2, 29) },
                    h \in {0, 11, 22, 23},
                    m \in {0, 30, 59} }

\* The expiry requested with timedelta(days = 1) in place of hours = 1
ExpiresAtOneDay(now) == Isoformat(PlusHours(now, 24))

\* payload["token"]["expires_at"], line 214
ExpiresAt(now) == Isoformat(PlusHours(now, 1))

\* The token request of create_temporary_token: the datetime.now() it
\* read and the expiry it asks for.  NoRequest outside the function.
TokenRequest(now) == [now |-> now, expires_at |-> ExpiresAt(now)]

NoRequest == [now |-> <<0, 0, 0>>, expires_at |-> << >>]

\* ------------------------------------------------------------------------
\* Configuration values and what the environment can answer
\* ------------------------------------------------------------------------

PlaceholderUrl == "https://yourschool.instructure.com/api/v1"
RealUrl == "https://canvas.example.edu/api/v1"
REPORT_EMAIL == "centralized-canvas-admin@yourschool.edu"

\* "yourschool" in BASE_URL, over the base addresses of the model
ContainsYourschool(url) == url = PlaceholderUrl

\* Python truthiness of a value that is None, an empty string or set
Truthy(v) == v # None /\ v # ""

\* An HTTP response that was received
Response(status, field, id) ==
    [kind |-> "response", status |-> status, field |-> field, id |-> id]

\* A call that ended without a response: a requests RequestException
\* ("network_error"; "invalid_url" is the RequestException requests raises
\* for a URL without scheme before it connects), an exception of another
\* class out of response.json() ("bad_body"), or KeyboardInterrupt
NoResponse(kind) == [kind |-> kind, status |-> 0, field |-> None, id |-> None]

NotCalled == NoResponse("not_called")

\* requests sends a request only to a URL that names a scheme; for the
\* base addresses of the model, to one that is not empty
Sendable(base) == base # ""

\* What requests.post to the token endpoint can produce
PostResults(base) ==
    IF ~Sendable(base)
    THEN {NoResponse("invalid_url"), NoResponse("interrupt")}
    ELSE { Response(200, f, i) : f \in {None, "secret"}, i \in {None, "id"} }
         \cup {Response(401, None, None)}
         \cup {NoResponse(k) : k \in {"network_error", "bad_body", "interrupt"}}

\* What requests.get to the sessionless-launch endpoint can produce
GetResults ==
    { Response(200, f, None) : f \in {None, "launch_url"} }
    \cup {Response(401, None, None)}
    \cup {NoResponse(k) : k \in {"network_error", "bad_body", "interrupt"}}

\* What requests.delete to the token endpoint can produce
DeleteResults ==
    {Response(200, None, None), Response(404, None, None),
     NoResponse("network_error")}

\* ------------------------------------------------------------------------
\* State
\* ------------------------------------------------------------------------

VARIABLES
    ADMIN_API_TOKEN,  \* configuration, line 78
    USER_ID,          \* configuration, line 79
    BASE_URL,         \* configuration, line 80
    pc,               \* position of the run in main()
    temp_token,       \* main: the secret of the temporary token
    temp_token_id,    \* main: its remote identifier, None until acquired
    sessionless_url,  \* main: the launch URL
    today,            \* calculate_date_range: the day datetime.now() fell on
    start_date,       \* main: start of the range, MM/DD/YYYY
    end_date,         \* main: end of the range, MM/DD/YYYY
    driver,           \* main: the WebDriver handle, None until returned
    success,          \* main: result of submit_attendance_report_form
    exc,              \* the exception the try body was left with
    exitCode,         \* process exit status, -1 while running
    browser,          \* the Chrome process: "none", "running", "closed"
    automation,       \* state of the form automation
    form,             \* what has been typed into each form field
    request,          \* create_temporary_token: its payload while it runs
    post_result,      \* outcome of the token creation call
    get_result,       \* outcome of the launch resolution call
    ops               \* history of the external operations of the run

vars == << ADMIN_API_TOKEN, USER_ID, BASE_URL, pc, temp_token, temp_token_id,
           sessionless_url, today, start_date, end_date, driver, success,
           exc, exitCode, browser, automation, form, request, post_result,
           get_result, ops >>

config == << ADMIN_API_TOKEN, USER_ID, BASE_URL >>
dates == << today, start_date, end_date >>
credential == << temp_token, temp_token_id, post_result, request >>
launch == << sessionless_url, get_result >>
session == << driver, browser >>
page == << automation, form >>

Op(name, out) == [op |-> name, out |-> out]

\* The operations of the history named name
OpsNamed(name) == { i \in 1..Len(ops) : ops[i].op = name }
Count(name) == Cardinality(OpsNamed(name))

EmptyForm == [start |-> NoDate, end |-> NoDate, email |-> None]

Init ==
    /\ ADMIN_API_TOKEN \in {"", "admin-token"}
    /\ USER_ID \in {"", "12345"}
    /\ BASE_URL \in {PlaceholderUrl, "", RealUrl}
    /\ pc = "validate"
    /\ temp_token = None
    /\ temp_token_id = None
    /\ sessionless_url = None
    /\ today = 0
    /\ start_date = NoDate
    /\ end_date = NoDate
    /\ driver = None
    /\ success = FALSE
    /\ exc = "none"
    /\ exitCode = -1
    /\ browser = "none"
    /\ automation = "Idle"
    /\ form = EmptyForm
    /\ request = NoRequest
    /\ post_result = NotCalled
    /\ get_result = NotCalled
    /\ ops = << >>

\* ------------------------------------------------------------------------
\* main(): configuration validation (lines 465-472)
\* ------------------------------------------------------------------------

\* The validation without its test of USER_ID
ConfigIncompleteNoUserId ==
    ~Truthy(ADMIN_API_TOKEN) \/ ContainsYourschool(BASE_URL)

ConfigIncomplete ==
    ~Truthy(ADMIN_API_TOKEN) \/ ~Truthy(USER_ID) \/ ContainsYourschool(BASE_URL)

\* sys.exit(1) before the try statement ends the process at once
Validate ==
    /\ pc = "validate"
    /\ IF ConfigIncomplete
       THEN pc' = "done" /\ exitCode' = 1
       ELSE pc' = "create" /\ exitCode' = exitCode
    /\ UNCHANGED << config, credential, launch, dates, session, page,
                    success, exc, ops >>

\* ------------------------------------------------------------------------
\* Leaving the try body of main (lines 479-503): with SystemExit from
\* sys.exit, with KeyboardInterrupt or with another Exception.  The two
\* handlers only log; the finally block follows in every case.
\* ------------------------------------------------------------------------

\* Leaving the try body when the cleanup follows the try statement instead
\* of standing in its finally block: SystemExit passes it by
LeaveSkippingCleanupOnExit(kind) ==
    /\ exc' = kind
    /\ pc' = (IF kind = "SystemExit" THEN "final" ELSE "finally_quit")

Leave(kind) ==
    /\ exc' = kind
    /\ pc' = "finally_quit"

\* The exception, if any, that ends a call which produced result r
Raised(r) ==
    CASE r.kind = "interrupt" -> "KeyboardInterrupt"
      [] r.kind = "bad_body" -> "Exception"
      [] OTHER -> "none"

\* ------------------------------------------------------------------------
\* Step 1: create_temporary_token (lines 191-245, called at line 481)
\* ------------------------------------------------------------------------

\* create_temporary_token without the test of lines 232-234
CreateReturnsAnyBody(r) ==
    r.kind = "response" /\ r.status = 200

\* The function returns (new_token, token_id): status 200 and a token in
\* the body (lines 227-237)
CreateReturns(r) ==
    r.kind = "response" /\ r.status = 200 /\ Truthy(r.field)

\* Lines 207-222: the URL, the payload with its expiry, the headers
BuildTokenRequest ==
    /\ pc = "create"
    /\ \/ \E now \in IssueTimes :
            /\ request' = TokenRequest(now)
            /\ pc' = "post_token"
            /\ exc' = exc
       \/ /\ Leave("KeyboardInterrupt")
          /\ request' = request
    /\ UNCHANGED << config, temp_token, temp_token_id, post_result, launch,
                    dates, session, page, success, exitCode, ops >>

\* Lines 224-245 and the assignment of line 481
CreateTemporaryToken ==
    /\ pc = "post_token"
    /\ request' = NoRequest
    /\ \E r \in PostResults(BASE_URL) :
        /\ post_result' = r
        /\ ops' = (IF Sendable(BASE_URL)
                   THEN Append(ops, Op("create_token", r.kind))
                   ELSE ops)
        /\ IF Raised(r) # "none"
           THEN /\ Leave(Raised(r))
                /\ UNCHANGED << temp_token, temp_token_id >>
           ELSE IF CreateReturns(r)
           THEN /\ temp_token' = r.field
                /\ temp_token_id' = r.id
                /\ pc' = "resolve"
                /\ exc' = exc
           ELSE /\ Leave("SystemExit")
                /\ UNCHANGED << temp_token, temp_token_id >>
    /\ UNCHANGED << config, launch, dates, session, page, success, exitCode >>

\* ------------------------------------------------------------------------
\* Step 2: get_sessionless_launch_url (lines 276-324) and the check of its
\* result in main (lines 484-487)
\* ------------------------------------------------------------------------

\* The value the function returns for result r: the URL, or None
LaunchUrlOf(r) ==
    IF r.kind = "response" /\ r.status = 200 /\ Truthy(r.field)
    THEN r.field
    ELSE None

\* Step 2 without the check of lines 485-487: main goes on with whatever
\* get_sessionless_launch_url returned
GetSessionlessLaunchUrlUnchecked ==
    /\ pc = "resolve"
    /\ \E r \in GetResults :
        /\ get_result' = r
        /\ ops' = Append(ops, Op("resolve_launch", r.kind))
        /\ IF Raised(r) # "none"
           THEN /\ Leave(Raised(r))
                /\ sessionless_url' = sessionless_url
           ELSE /\ sessionless_url' = LaunchUrlOf(r)
                /\ pc' = "dates"
                /\ exc' = exc
    /\ UNCHANGED << config, credential, dates, session, page, success,
                    exitCode >>

GetSessionlessLaunchUrl ==
    /\ pc = "resolve"
    /\ \E r \in GetResults :
        /\ get_result' = r
        /\ ops' = Append(ops, Op("resolve_launch", r.kind))
        /\ IF Raised(r) # "none"
           THEN /\ Leave(Raised(r))
                /\ sessionless_url' = sessionless_url
           ELSE /\ sessionless_url' = LaunchUrlOf(r)
                /\ IF ~Truthy(LaunchUrlOf(r))
                   THEN Leave("SystemExit")
                   ELSE pc' = "dates" /\ exc' = exc
    /\ UNCHANGED << config, credential, dates, session, page, success,
                    exitCode >>

\* ------------------------------------------------------------------------
\* Step 3: the date range (lines 489-493)
\* ------------------------------------------------------------------------

CalculateDateRange ==
    /\ pc = "dates"
    /\ \/ \E n \in RunDates :
            /\ today' = n
            /\ start_date' = calculate_date_range(n)[1]
            /\ end_date' = calculate_date_range(n)[2]
            /\ pc' = "chrome_start"
            /\ exc' = exc
       \/ /\ Leave("KeyboardInterrupt")
          /\ UNCHANGED dates
    /\ UNCHANGED << config, credential, launch, session, page, success,
                    exitCode, ops >>

\* ------------------------------------------------------------------------
\* Step 4a: configure_chrome_driver (lines 327-372, called at line 496)
\* ------------------------------------------------------------------------

\* What a WebDriver command can do: return, raise TimeoutException, raise
\* another WebDriverException, or be cut short by KeyboardInterrupt
DriverOutcomes == {"ok", "TimeoutException", "WebDriverException", "interrupt"}

\* What time.sleep can do
SleepOutcomes == {"ok", "interrupt"}

\* webdriver.Chrome(options=...), line 363: starts the browser process.
\* A WebDriverException (TimeoutException is one) is turned into
\* sys.exit(1) by lines 368-372.
StartChrome ==
    /\ pc = "chrome_start"
    /\ \E o \in DriverOutcomes :
        /\ ops' = Append(ops, Op("start_browser", o))
        /\ IF o = "ok"
           THEN browser' = "running" /\ pc' = "chrome_config" /\ exc' = exc
           ELSE /\ browser' = browser
                /\ Leave(IF o = "interrupt" THEN "KeyboardInterrupt"
                                            ELSE "SystemExit")
    /\ UNCHANGED << config, credential, launch, dates, driver, page, success,
                    exitCode >>

\* driver.set_page_load_timeout and the return to main, lines 364-366 and
\* 496: only a normal return binds main's driver.
ConfigureChrome ==
    /\ pc = "chrome_config"
    /\ \E o \in DriverOutcomes :
        /\ ops' = Append(ops, Op("set_page_load_timeout", o))
        /\ IF o = "ok"
           THEN driver' = "webdriver" /\ pc' = "navigate" /\ exc' = exc
           ELSE /\ driver' = driver
                /\ Leave(IF o = "interrupt" THEN "KeyboardInterrupt"
                                            ELSE "SystemExit")
    /\ UNCHANGED << config, credential, launch, dates, browser, page, success,
                    exitCode >>

\* ------------------------------------------------------------------------
\* Step 4b: submit_attendance_report_form (lines 375-444, called at 497)
\* ------------------------------------------------------------------------

\* A step of the form automation that did not return normally: the
\* handlers of lines 437-444 turn TimeoutException and any other Exception
\* into "return False"; KeyboardInterrupt passes them and reaches main.
FormStepFails(o) ==
    IF o = "interrupt"
    THEN /\ automation' = "Interrupted"
         /\ Leave("KeyboardInterrupt")
         /\ success' = success
    ELSE /\ automation' = (IF o = "TimeoutException" THEN "TimedOut"
                                                     ELSE "Errored")
         /\ success' = FALSE
         /\ pc' = "finally_quit"
         /\ exc' = exc

\* A step of the form automation: the operation name recorded, the outcomes
\* it can have, and on a normal return the next position, automation state
\* and form contents
FormStep(at, name, outcomes, next, nextAutomation, nextForm) ==
    /\ pc = at
    /\ \E o \in outcomes :
        /\ ops' = (IF name = "sleep" THEN ops ELSE Append(ops, Op(name, o)))
        /\ IF o = "ok"
           THEN /\ pc' = next
                /\ automation' = nextAutomation
                /\ form' = nextForm
                /\ UNCHANGED << exc, success >>
           ELSE /\ FormStepFails(o)
                /\ form' = form
    /\ UNCHANGED << config, credential, launch, dates, session, exitCode >>

\* driver.get(sessionless_url), line 392
Navigate ==
    FormStep("navigate", "navigate", DriverOutcomes, "wait_start",
             "Launched", form)

\* The wait for the start-date field with its timeout swallowed: the
\* automation goes on to fill the form
WaitStartFieldLenient ==
    /\ pc = "wait_start"
    /\ \E o \in DriverOutcomes :
        /\ ops' = Append(ops, Op("wait_start_field", o))
        /\ IF o \in {"ok", "TimeoutException"}
           THEN /\ pc' = "fill_start"
                /\ UNCHANGED << automation, form, exc, success >>
           ELSE /\ FormStepFails(o)
                /\ form' = form
    /\ UNCHANGED << config, credential, launch, dates, session, exitCode >>

\* wait.until(presence of report[start_date]), lines 395-402
WaitStartField ==
    FormStep("wait_start", "wait_start_field", DriverOutcomes, "fill_start",
             "Launched", form)

\* start_field.clear(); start_field.send_keys(start_date), lines 403-404
FillStartDate ==
    FormStep("fill_start", "fill_start", DriverOutcomes, "fill_end",
             "Launched", [form EXCEPT !.start = start_date])

\* report[end_date], lines 407-409
FillEndDate ==
    FormStep("fill_end", "fill_end", DriverOutcomes, "fill_email",
             "Launched", [form EXCEPT !.end = end_date])

\* report[email], lines 418-420
FillEmail ==
    FormStep("fill_email", "fill_email", DriverOutcomes, "settle",
             "FieldsPopulated", [form EXCEPT !.email = REPORT_EMAIL])

\* time.sleep(2), line 424
Settle ==
    FormStep("settle", "sleep", SleepOutcomes, "find_submit",
             "FieldsPopulated", form)

\* driver.find_element(By.NAME, "commit"), line 427
FindSubmit ==
    FormStep("find_submit", "find_submit", DriverOutcomes, "click",
             "FieldsPopulated", form)

\* submit_button.click(), line 428
ClickSubmit ==
    FormStep("click", "click_submit", DriverOutcomes, "post_wait",
             "Submitted", form)

\* time.sleep(FORM_SUBMIT_WAIT); return True, lines 433-435, and the
\* assignment to success in main, line 497
PostSubmitWait ==
    /\ pc = "post_wait"
    /\ \E o \in SleepOutcomes :
        IF o = "ok"
        THEN /\ automation' = "Confirmed"
             /\ success' = TRUE
             /\ pc' = "finally_quit"
             /\ exc' = exc
        ELSE FormStepFails(o)
    /\ UNCHANGED << config, credential, launch, dates, session, form,
                    exitCode, ops >>

\* ------------------------------------------------------------------------
\* The finally block of main (lines 505-515)
\* ------------------------------------------------------------------------

\* What driver.quit() can do inside "try: ... except Exception: pass"
QuitOutcomes == {"ok", "WebDriverException"}

\* The teardown without its try/except: an error of driver.quit() leaves
\* main as an unhandled exception, and the process ends with status 1
FinallyQuitUnguarded ==
    /\ pc = "finally_quit"
    /\ IF Truthy(driver)
       THEN \E o \in QuitOutcomes :
               /\ ops' = Append(ops, Op("quit_browser", o))
               /\ browser' = (IF o = "ok" THEN "closed" ELSE browser)
               /\ IF o = "ok"
                  THEN pc' = "finally_delete" /\ exitCode' = exitCode
                  ELSE pc' = "done" /\ exitCode' = 1
       ELSE /\ UNCHANGED << ops, browser, exitCode >>
            /\ pc' = "finally_delete"
    /\ UNCHANGED << config, credential, launch, dates, driver, page, success,
                    exc >>

\* if driver: driver.quit(), errors swallowed (lines 507-512)
FinallyQuit ==
    /\ pc = "finally_quit"
    /\ IF Truthy(driver)
       THEN \E o \in QuitOutcomes :
               /\ ops' = Append(ops, Op("quit_browser", o))
               /\ browser' = (IF o = "ok" THEN "closed" ELSE browser)
       ELSE UNCHANGED << ops, browser >>
    /\ pc' = "finally_delete"
    /\ UNCHANGED << config, credential, launch, dates, driver, page, success,
                    exc, exitCode >>

\* delete_temporary_token (lines 248-273): every outcome of the call is
\* logged and the function returns
DeleteTemporaryToken ==
    \E r \in DeleteResults :
        ops' = Append(ops, Op("delete_token",
                              IF r.kind = "response" /\ r.status = 200
                              THEN "deleted" ELSE "failed"))

\* The release without the test of line 514: delete_temporary_token is
\* called with whatever temp_token_id holds
FinallyDeleteUnguarded ==
    /\ pc = "finally_delete"
    /\ DeleteTemporaryToken
    /\ pc' = "final"
    /\ UNCHANGED << config, credential, launch, dates, session, page, success,
                    exc, exitCode >>

\* The release repeated until the identity service confirms the deletion
FinallyDeleteRetrying ==
    /\ pc = "finally_delete"
    /\ IF Truthy(temp_token_id)
       THEN \E r \in DeleteResults :
               LET deleted == r.kind = "response" /\ r.status = 200
               IN  /\ ops' = Append(ops, Op("delete_token",
                                   IF deleted THEN "deleted" ELSE "failed"))
                   /\ pc' = (IF deleted THEN "final" ELSE "finally_delete")
       ELSE ops' = ops /\ pc' = "final"
    /\ UNCHANGED << config, credential, launch, dates, session, page, success,
                    exc, exitCode >>

\* if temp_token_id: delete_temporary_token(...) (lines 514-515)
FinallyDelete ==
    /\ pc = "finally_delete"
    /\ IF Truthy(temp_token_id)
       THEN DeleteTemporaryToken
       ELSE ops' = ops
    /\ pc' = "final"
    /\ UNCHANGED << config, credential, launch, dates, session, page, success,
                    exc, exitCode >>

\* ------------------------------------------------------------------------
\* After the finally block: a pending SystemExit(1) ends the process with
\* status 1; otherwise the final status of lines 517-527
\* ------------------------------------------------------------------------

\* The final status without the test of success
ExitStatusIgnoringSuccess ==
    IF exc = "SystemExit" THEN 1 ELSE 0

ExitStatus ==
    IF exc = "SystemExit" THEN 1
    ELSE IF success THEN 0 ELSE 1

FinalStatus ==
    /\ pc = "final"
    /\ exitCode' = ExitStatus
    /\ pc' = "done"
    /\ UNCHANGED << config, credential, launch, dates, session, page, success,
                    exc, ops >>

Next ==
    \/ Validate
    \/ BuildTokenRequest
    \/ CreateTemporaryToken
    \/ GetSessionlessLaunchUrl
    \/ CalculateDateRange
    \/ StartChrome
    \/ ConfigureChrome
    \/ Navigate
    \/ WaitStartField
    \/ FillStartDate
    \/ FillEndDate
    \/ FillEmail
    \/ Settle
    \/ FindSubmit
    \/ ClickSubmit
    \/ PostSubmitWait
    \/ FinallyQuit
    \/ FinallyDelete
    \/ FinalStatus

Spec == Init /\ [][Next]_vars

\* One thread runs the steps in sequence and every external call returns,
\* raises or times out (requests timeout=30, page-load and element-wait
\* timeouts, bounded sleeps): a step that can be taken is taken.
FairSpec == Spec /\ WF_vars(Next)

Done == pc = "done"

\* ------------------------------------------------------------------------
\* Vocabulary of the properties
\* ------------------------------------------------------------------------

DigitVal(c) == CHOOSE d \in 0..9 : DigitChar(d) = c

\* The ordinal of the calendar date an MM/DD/YYYY string names
ParseOrd(s) ==
    Ymd2ord(DigitVal(s[7]) * 1000 + DigitVal(s[8]) * 100
              + DigitVal(s[9]) * 10 + DigitVal(s[10]),
            DigitVal(s[1]) * 10 + DigitVal(s[2]),
            DigitVal(s[4]) * 10 + DigitVal(s[5]))

\* Credential acquisition succeeded: create_temporary_token returned
Acquired == CreateReturns(post_result)

\* Credential creation failed: non-success status, no response, or a
\* success response without the secret
CreationFailed ==
    \/ post_result.kind \in {"network_error", "invalid_url"}
    \/ /\ post_result.kind = "response"
       /\ (post_result.status # 200 \/ post_result.field = None)

\* Launch resolution failed: non-success status, no response, or a success
\* response without the URL
ResolutionFailed ==
    \/ get_result.kind = "network_error"
    \/ /\ get_result.kind = "response"
       /\ (get_result.status # 200 \/ get_result.field = None)

\* The history holds operation name with outcome out
Happened(name, out) == \E i \in OpsNamed(name) : ops[i].out = out

\* Every operation named first precedes every operation named second
Precedes(first, second) ==
    \A i \in OpsNamed(first), j \in OpsNamed(second) : i < j

BrowserOps == {"start_browser", "set_page_load_timeout", "navigate",
               "wait_start_field", "fill_start", "fill_end", "fill_email",
               "find_submit", "click_submit", "quit_browser"}

NoBrowserOps == \A i \in 1..Len(ops) : ops[i].op \notin BrowserOps

\* The exit status when the form automation decides the outcome
StatusOf(state) == IF state = "Confirmed" THEN 0 ELSE 1

\* ------------------------------------------------------------------------
\* Properties
\* ------------------------------------------------------------------------

\* C1: when the run has ended, the number of delete-token calls equals the
\* number of successful acquisitions (create_temporary_token returned): one
\* if it returned, none otherwise.
ReleaseCountEqualsAcquisitions ==
    Done => Count("delete_token") = (IF Acquired THEN 1 ELSE 0)

CleanupOnEveryExitPath ==
    (pc \in {"final", "done"} /\ ~ConfigIncomplete) =>
        /\ (browser # "none") => Count("quit_browser") = 1
        /\ Acquired => Count("delete_token") = 1
        /\ Precedes("quit_browser", "delete_token")

\* C4: after a failed credential creation the run makes no resolution call,
\* starts and drives no browser, makes no delete call, and exits 1.
CreationFailureStopsRun ==
    CreationFailed =>
        /\ Count("resolve_launch") = 0
        /\ NoBrowserOps /\ browser = "none"
        /\ Count("delete_token") = 0
        /\ pc \in {"finally_quit", "finally_delete", "final", "done"}
        /\ Done => exitCode = 1

CreationRejectedRunEnded ==
    Done /\ post_result = Response(401, None, None) /\ exitCode = 1

\* C5: after a failed launch resolution no browser session is opened and
\* nothing is navigated, the run exits 1, and the acquired credential is
\* released.
ResolutionFailureStillReleases ==
    (Done /\ ResolutionFailed) =>
        /\ NoBrowserOps /\ browser = "none"
        /\ exitCode = 1
        /\ Count("delete_token") = 1

\* C6: when the wait for the start-date field times out, the automation
\* ends in TimedOut with no field populated and no submit click, the run
\* exits 1, and the credential deletion is attempted after the teardown.
FieldWaitTimeoutStillReleases ==
    (Done /\ Happened("wait_start_field", "TimeoutException")) =>
        /\ automation = "TimedOut"
        /\ form = EmptyForm
        /\ Count("click_submit") = 0
        /\ exitCode = 1
        /\ Count("quit_browser") = 1
        /\ Count("delete_token") = 1
        /\ Precedes("quit_browser", "delete_token")

\* A required setting is missing or still the placeholder
MissingConfiguration ==
    \/ ADMIN_API_TOKEN = ""
    \/ USER_ID = ""
    \/ BASE_URL \in {"", PlaceholderUrl}

DateRangeByWeekday ==
    (start_date # NoDate) =>
        /\ ParseOrd(end_date) = today - 1
        /\ ParseOrd(start_date) =
               (IF Weekday(today) = 0 THEN today - 7 ELSE today - 1)
        /\ (today = Ymd2ord(2025, 12, 15)) =>
               /\ start_date = <<"1","2","/","0","8","/","2","0","2","5">>
               /\ end_date = <<"1","2","/","1","4","/","2","0","2","5">>
        /\ (today = Ymd2ord(2025, 12, 17)) =>
               /\ start_date = <<"1","2","/","1","6","/","2","0","2","5">>
               /\ end_date = <<"1","2","/","1","6","/","2","0","2","5">>

MondayRangeComputed ==
    /\ today = Ymd2ord(2025, 12, 15)
    /\ Weekday(today) = 0
    /\ start_date = <<"1","2","/","0","8","/","2","0","2","5">>

\* C9: the range typed into the form is the one computed from the run date,
\* its start is not after its end, and its end is before the run date.
FormRangeOrdered ==
    /\ form.start \in {NoDate, start_date}
    /\ form.end \in {NoDate, end_date}
    /\ (start_date # NoDate) =>
           /\ ParseOrd(start_date) <= ParseOrd(end_date)
           /\ ParseOrd(end_date) < today
    /\ (form.start # NoDate /\ form.end # NoDate) =>
           /\ ParseOrd(form.start) <= ParseOrd(form.end)
           /\ ParseOrd(form.end) < today

MondayRangeTyped ==
    /\ Weekday(today) = 0
    /\ form.start # NoDate /\ form.end # NoDate
    /\ ParseOrd(form.start) < ParseOrd(form.end)

\* The browser teardown raised or the credential deletion failed
CleanupFailed ==
    Happened("quit_browser", "WebDriverException")
    \/ Happened("delete_token", "failed")

\* C10: a failing browser teardown or a failing credential deletion leaves
\* the exit status what the form automation made it: 0 after Confirmed, 1
\* otherwise, and does not end the process before the final status.
CleanupFailureKeepsOutcome ==
    /\ (pc \in {"finally_delete", "final"} /\ CleanupFailed) => exitCode = -1
    /\ (Done /\ CleanupFailed) => exitCode = StatusOf(automation)

FailedCleanupAfterConfirmed ==
    /\ Done /\ exitCode = 0
    /\ Happened("quit_browser", "WebDriverException")
    /\ Happened("delete_token", "failed")

\* C11: when the run has ended, every browser that was started has had
\* driver.quit attempted on it, whichever state the automation ended in
\* and also when configuring the started browser failed.
StartedBrowserTornDown ==
    (Done /\ Happened("start_browser", "ok")) => Count("quit_browser") = 1

\* The process ends with a defined status, and from the try body only
\* through the whole finally block
TerminatesWithStatus ==
    /\ <>Done
    /\ [](Done => exitCode \in {0, 1})
    /\ [][pc' = "final" => pc = "finally_delete"]_vars
    /\ [][pc' = "finally_delete" => pc = "finally_quit"]_vars

FormOrder == << "navigate", "wait_start_field", "fill_start", "fill_end",
                "fill_email", "find_submit", "click_submit" >>

FormOpNames == { FormOrder[k] : k \in 1..Len(FormOrder) }

\* How far the automation has come; the terminal states are last
Rank(state) ==
    CASE state = "Idle" -> 0
      [] state = "Launched" -> 1
      [] state = "FieldsPopulated" -> 2
      [] state = "Submitted" -> 3
      [] OTHER -> 4

\* C13: the form automation only moves forward.  Each form action happens
\* only after the one before it returned; the submit control is invoked
\* only with start date, end date and recipient set; Confirmed comes only
\* after the click returned and is the only state with result True; a
\* timeout or exception gives TimedOut or Errored with result False; after
\* a failed action no form action follows, and a terminal state is kept.
FormAutomationMovesForward ==
    /\ [](\A k \in 2..Len(FormOrder) : \A j \in OpsNamed(FormOrder[k]) :
            \E i \in OpsNamed(FormOrder[k - 1]) : i < j /\ ops[i].out = "ok")
    /\ [](Count("click_submit") > 0 =>
            /\ start_date # NoDate
            /\ form = [start |-> start_date, end |-> end_date,
                       email |-> REPORT_EMAIL])
    /\ [](success <=> automation = "Confirmed")
    /\ [](automation = "Confirmed" => Happened("click_submit", "ok"))
    /\ [](\A i \in 1..Len(ops) :
            (ops[i].op \in FormOpNames /\ ops[i].out # "ok") =>
                /\ \A j \in (i + 1)..Len(ops) : ops[j].op \notin FormOpNames
                /\ ops[i].out = "TimeoutException" => automation = "TimedOut"
                /\ ops[i].out = "WebDriverException" => automation = "Errored")
    /\ [][Rank(automation') >= Rank(automation)]_vars
    /\ [][Rank(automation) = 4 => automation' = automation]_vars

ConfirmedAfterAllFields ==
    /\ automation = "Confirmed"
    /\ form.email = REPORT_EMAIL
    /\ Happened("fill_end", "ok")

\* The creation call answered 200 with a secret
CreationSucceeded ==
    /\ post_result.kind = "response"
    /\ post_result.status = 200
    /\ post_result.field # None

\* The resolution call answered 200 with a URL
ResolutionSucceeded ==
    /\ get_result.kind = "response"
    /\ get_result.status = 200
    /\ get_result.field # None

\* C14: the steps of a run occur in the order acquire, resolve, date
\* range, browser and form, release: resolution only after a successful
\* acquisition, the date range only after a successful resolution, the
\* browser only after the date range, navigation only to the resolved URL,
\* and the credential release is the last external operation.
StepsInOrder ==
    /\ Count("resolve_launch") > 0 =>
           CreationSucceeded /\ Precedes("create_token", "resolve_launch")
    /\ today # 0 => ResolutionSucceeded
    /\ Count("start_browser") > 0 =>
           today # 0 /\ Precedes("resolve_launch", "start_browser")
    /\ Count("navigate") > 0 =>
           /\ ResolutionSucceeded
           /\ sessionless_url = get_result.field
           /\ Precedes("start_browser", "navigate")
    /\ \A i \in OpsNamed("delete_token") : i = Len(ops)

FullRunReleasedLast ==
    /\ Done
    /\ Count("click_submit") = 1
    /\ Len(ops) > 0
    /\ ops[Len(ops)].op = "delete_token"

\* C15: nothing is retried within a run: credential creation, launch
\* resolution, browser navigation, form submit and credential deletion are
\* each attempted at most once, also after they failed.
NothingRetried ==
    \A name \in {"create_token", "resolve_launch", "navigate",
                 "click_submit", "delete_token"} : Count(name) <= 1

FailedOperationsNotRepeated ==
    /\ Done
    /\ Happened("navigate", "TimeoutException")
    /\ Happened("delete_token", "failed")
    /\ Count("navigate") = 1 /\ Count("delete_token") = 1

\* C16: the release step reached with no remote identifier held is a
\* no-op: it makes no delete call, and a run that holds no identifier has
\* made none.
ReleaseWithoutCredentialIsNoOp ==
    /\ [][(pc = "finally_delete" /\ ~Truthy(temp_token_id)) =>
             (ops' = ops /\ pc' = "final")]_vars
    /\ [](~Truthy(temp_token_id) => Count("delete_token") = 0)

ReleasePassedWithoutCredential ==
    /\ pc = "final"
    /\ post_result.kind = "network_error"
    /\ temp_token_id = None
    /\ Count("delete_token") = 0

\* The minutes since the start of day 0 that an ISO string YYYY-MM-DDTHH:MM
\* names
IsoMinutes(s) ==
    LET day == Ymd2ord(DigitVal(s[1]) * 1000 + DigitVal(s[2]) * 100
                         + DigitVal(s[3]) * 10 + DigitVal(s[4]),
                       DigitVal(s[6]) * 10 + DigitVal(s[7]),
                       DigitVal(s[9]) * 10 + DigitVal(s[10]))
    IN  (day * 24 + DigitVal(s[12]) * 10 + DigitVal(s[13])) * 60
          + DigitVal(s[15]) * 10 + DigitVal(s[16])

\* The minutes since the start of day 0 of a time <<ordinal, hour, minute>>
MinutesOf(t) == (t[1] * 24 + t[2]) * 60 + t[3]

\* C17: the expiry every token request asks for is the time the request
\* was built plus one hour.
ExpiryOneHourAfterIssue ==
    (request # NoRequest) =>
        IsoMinutes(request.expires_at) = MinutesOf(request.now) + 60

ExpiryCrossesYearEnd ==
    /\ pc = "post_token"
    /\ request.now = << Ymd2ord(2025, 12, 31), 23, 30 >>
    /\ request.expires_at = << "2","0","2","6","-","0","1","-","0","1","T",
                               "0","0",":","3","0" >>

\* C18: a run that ends with exit status 1 has not clicked the submit
\* control of the form: a submit click that went through happens only in
\* runs that exit 0.
FailedRunNeverSubmitted ==
    (Done /\ exitCode = 1) => ~Happened("click_submit", "ok")

\* C19: the requested range never exceeds six days from start to end: it
\* is exactly six days on a Monday and zero days on every other weekday.
RangeWithinSixDays ==
    (start_date # NoDate) =>
        /\ ParseOrd(end_date) - ParseOrd(start_date) <= 6
        /\ ParseOrd(end_date) - ParseOrd(start_date) =
               (IF Weekday(today) = 0 THEN 6 ELSE 0)

MondaySpanSixDays ==
    /\ Weekday(today) = 0
    /\ start_date # NoDate
    /\ ParseOrd(end_date) - ParseOrd(start_date) = 6
    /\ Ord2ymd(ParseOrd(start_date))[2] # Ord2ymd(ParseOrd(end_date))[2]

=============================================================================
